---------------------------- MODULE Spec2Model ----------------------------
(***************************************************************************)
(* Model of package watermark (src/watermark.go): the colour compositor    *)
(* blendColors, the placement switch and pixel loop of Apply, and the      *)
(* tiling loops of Tile.                                                    *)
(*                                                                         *)
(* An image.Image is modelled by its bounding rectangle and a pixel        *)
(* accessor; a colour by the four 16-bit values its RGBA() method returns; *)
(* a color.RGBA (a pixel of the *image.RGBA output buffer) by its four     *)
(* 8-bit fields <<R, G, B, A>>.  A float64 opacity is the rational         *)
(* n / OpacityDen.                                                         *)
(***************************************************************************)
EXTENDS Integers, Sequences, FiniteSets

VARIABLES src,    \* the base image handed to the call
          wm,     \* the watermark (overlay) image handed to the call
          call,   \* the call being made and its arguments
          pc,     \* "idle", "applied", "tile" (inside Tile's loops), "tiled"
          dst,    \* the output buffer (an *image.RGBA over src's rectangle)
          x, y,   \* Apply: the placement offset; Tile: the tile-origin loop variables
          wmW, wmH \* Tile: the strides

vars == <<src, wm, call, pc, dst, x, y, wmW, wmH>>

-----------------------------------------------------------------------------
(* Bounds of the model *)

MaxBase == 3    \* base images are up to MaxBase x MaxBase pixels
MaxOverlay == 2 \* overlays are up to MaxOverlay x MaxOverlay pixels
MinOrigin == 2  \* Tile's loops are followed while x, y >= -MinOrigin

BaseOrigins == {<<0, 0>>, <<1, -1>>}
OverlayOrigins == {<<0, 0>>, <<2, 1>>}
OverlayKinds == {"opaque", "clear", "mixed"}
Paddings == {<<0, 0>>, <<1, 0>>, <<-1, 2>>}
ApplyOpacities == {-4, 0, 1, 4, 8}
TileOpacities == {0, 2, 4, 8}
Spacings == {-2, -1, 0, 1}
FloatConversions == {"wrap", "saturate"}

-----------------------------------------------------------------------------
(* Positions *)

Center == 0
TopLeft == 1
TopRight == 2
BottomLeft == 3
BottomRight == 4
Positions == {Center, TopLeft, TopRight, BottomLeft, BottomRight, 5}

\* float64 opacities are the rationals n / OpacityDen
OpacityDen == 4

-----------------------------------------------------------------------------
(* Integer helpers *)

\* GoDiv rounding toward minus infinity
GoDivFloor(a, b) == a \div b

\* Go's integer division: truncation toward zero.
GoDiv(a, b) == IF a >= 0 THEN a \div b ELSE -((-a) \div b)

\* v >> 8 on a uint32
Shr8(v) == v \div 256

\* uint8(f) for a float64 f whose truncation toward zero is v.  A value that
\* uint8 cannot represent converts to an implementation-dependent result.
Uint8(v, conv) ==
    IF v >= 0 /\ v <= 255 THEN v
    ELSE IF conv = "wrap" THEN v % 256
    ELSE IF v < 0 THEN 0 ELSE 255

-----------------------------------------------------------------------------
(* Images *)

Dx(img) == img.w
Dy(img) == img.h

Rect(img) == {p \in (img.min[1] .. img.min[1] + img.w - 1) \X
                    (img.min[2] .. img.min[2] + img.h - 1) : TRUE}

\* RGBA() of the base pixel i columns and j rows from the base's top-left corner
BaseColor(i, j) ==
    LET a == CASE (i + 2 * j) % 3 = 0 -> 65535
               [] (i + 2 * j) % 3 = 1 -> 32896
               [] OTHER -> 0
    IN <<((40 + 50 * i + 15 * j) % 256) * 256 + 7,
         ((220 - 35 * i - 60 * j) % 256) * 256 + 130,
         ((90 + 20 * i + 70 * j) % 256) * 256 + 255,
         a>>

\* RGBA() of the overlay pixel i columns and j rows from the overlay's corner
OverlayColor(kind, i, j) ==
    LET rgb == <<((200 - 30 * i - 7 * j) % 256) * 257,
                 ((10 + 60 * i + 25 * j) % 256) * 257,
                 ((128 + 40 * i - 45 * j) % 256) * 257>>
        a == CASE kind = "opaque" -> 65535
               [] kind = "clear" -> 0
               [] OTHER -> CASE (i + j) % 3 = 0 -> 65535
                             [] (i + j) % 3 = 1 -> 0
                             [] OTHER -> 32768
    IN <<rgb[1], rgb[2], rgb[3], a>>

\* src.At(px, py).RGBA()
SrcAt(img, px, py) ==
    IF <<px, py>> \in Rect(img)
    THEN BaseColor(px - img.min[1], py - img.min[2])
    ELSE <<0, 0, 0, 0>>

\* watermark.At(px, py).RGBA()
WmAt(img, px, py) ==
    IF <<px, py>> \in Rect(img)
    THEN OverlayColor(img.kind, px - img.min[1], py - img.min[2])
    ELSE <<0, 0, 0, 0>>

\* color.RGBAModel.Convert: the 8-bit colour of a 16-bit one
ToRGBA(c) == <<Shr8(c[1]), Shr8(c[2]), Shr8(c[3]), Shr8(c[4])>>

\* color.RGBA.RGBA(): each 8-bit field v becomes v | v<<8
RGBA16(c) == <<c[1] * 257, c[2] * 257, c[3] * 257, c[4] * 257>>

\* dst := image.NewRGBA(srcBounds); draw.Draw(dst, srcBounds, src, srcBounds.Min, draw.Src)
CopyBase(img) == [p \in Rect(img) |-> ToRGBA(SrcAt(img, p[1], p[2]))]

\* (*image.RGBA).At: the zero colour outside the rectangle
At(d, px, py) == IF <<px, py>> \in DOMAIN d THEN d[<<px, py>>] ELSE <<0, 0, 0, 0>>

\* (*image.RGBA).Set of a color.RGBA: nothing outside the rectangle
Set(d, px, py, c) == IF <<px, py>> \in DOMAIN d THEN [d EXCEPT ![<<px, py>>] = c] ELSE d

-----------------------------------------------------------------------------
(* blendColors *)

\* BlendChannel dividing the overlay alpha by 65536
BlendChannelBy65536(bc, oc, oa, n, conv) ==
    LET den == 65536 * OpacityDen
        num == bc * (den - oa * n) + oc * (oa * n)
    IN Uint8(GoDiv(num, den), conv)

\* uint8(float64(bc)*(1-overlayAlpha) + float64(oc)*overlayAlpha) with
\* overlayAlpha = float64(oa)/65535.0*opacity, opacity = n/OpacityDen.
\* The quotient is exact rational arithmetic truncated toward zero; on the
\* alphas (0, 32768, 65535) and opacities (quarters up to 2) drawn here the
\* float64 evaluation truncates to the same integer for all 8-bit bc, oc.
BlendChannel(bc, oc, oa, n, conv) ==
    LET den == 65535 * OpacityDen
        num == bc * (den - oa * n) + oc * (oa * n)
    IN Uint8(GoDiv(num, den), conv)

\* blendColors returning the overlay pixel when it is transparent
blendColorsKeepingOverlay(base, overlay, n, conv) ==
    LET b == RGBA16(base)
        oa == overlay[4]
    IN IF oa = 0 THEN ToRGBA(overlay)
       ELSE <<BlendChannel(Shr8(b[1]), Shr8(overlay[1]), oa, n, conv),
              BlendChannel(Shr8(b[2]), Shr8(overlay[2]), oa, n, conv),
              BlendChannel(Shr8(b[3]), Shr8(overlay[3]), oa, n, conv),
              Shr8(b[4])>>

\* blendColors taking the result's alpha from the overlay
blendColorsWithOverlayAlpha(base, overlay, n, conv) ==
    LET b == RGBA16(base)
        oa == overlay[4]
    IN IF oa = 0 THEN base
       ELSE <<BlendChannel(Shr8(b[1]), Shr8(overlay[1]), oa, n, conv),
              BlendChannel(Shr8(b[2]), Shr8(overlay[2]), oa, n, conv),
              BlendChannel(Shr8(b[3]), Shr8(overlay[3]), oa, n, conv),
              Shr8(oa)>>

\* blendColors(base, overlay, opacity), opacity = n / OpacityDen
blendColors(base, overlay, n, conv) ==
    LET b == RGBA16(base)
        br == b[1]
        bg == b[2]
        bb == b[3]
        ba == b[4]
        or == overlay[1]
        og == overlay[2]
        ob == overlay[3]
        oa == overlay[4]
    IN IF oa = 0 THEN base
       ELSE <<BlendChannel(Shr8(br), Shr8(or), oa, n, conv),
              BlendChannel(Shr8(bg), Shr8(og), oa, n, conv),
              BlendChannel(Shr8(bb), Shr8(ob), oa, n, conv),
              Shr8(ba)>>

-----------------------------------------------------------------------------
(* Apply *)

\* the switch on opts.Position
PlacementOffset(bw, bh, ow, oh, pos, px, py) ==
    CASE pos = Center -> <<GoDiv(bw - ow, 2), GoDiv(bh - oh, 2)>>
      [] pos = TopLeft -> <<px, py>>
      [] pos = TopRight -> <<bw - ow - px, py>>
      [] pos = BottomLeft -> <<px, bh - oh - py>>
      [] pos = BottomRight -> <<bw - ow - px, bh - oh - py>>
      [] OTHER -> <<0, 0>>

\* NormalizeOpacity without the default for an opacity <= 0
NormalizeOpacityWithoutDefault(n) == IF n > OpacityDen THEN OpacityDen ELSE n

\* if opts.Opacity <= 0 { 0.5 }; if opts.Opacity > 1 { 1 }
NormalizeOpacity(n) ==
    LET m == IF n <= 0 THEN OpacityDen \div 2 ELSE n
    IN IF m > OpacityDen THEN OpacityDen ELSE m

\* if dx < 0 || dx >= srcBounds.Dx() || dy < 0 || dy >= srcBounds.Dy() { continue }
ApplySkips(s, dx, dy) == dx < 0 \/ dx >= Dx(s) \/ dy < 0 \/ dy >= Dy(s)

\* ApplyPixel reading the overlay at (wx, wy), not from wmBounds.Min
ApplyPixelIgnoringOverlayMin(d, s, w, ox, oy, n, conv, wx, wy) ==
    LET dx == ox + wx
        dy == oy + wy
    IN IF ApplySkips(s, dx, dy) THEN d
       ELSE Set(d, dx, dy, blendColors(At(d, dx, dy), WmAt(w, wx, wy), n, conv))

\* the body of Apply's loops for overlay pixel (wx, wy)
ApplyPixel(d, s, w, ox, oy, n, conv, wx, wy) ==
    LET dx == ox + wx
        dy == oy + wy
    IN IF ApplySkips(s, dx, dy) THEN d
       ELSE LET srcColor == At(d, dx, dy)
                wmColor == WmAt(w, w.min[1] + wx, w.min[2] + wy)
            IN Set(d, dx, dy, blendColors(srcColor, wmColor, n, conv))

\* Apply's loops from the k-th overlay pixel on, rows outermost
RECURSIVE ApplyLoop(_, _, _, _, _, _, _, _)
ApplyLoop(d, s, w, ox, oy, n, conv, k) ==
    IF k >= Dx(w) * Dy(w) THEN d
    ELSE ApplyLoop(ApplyPixel(d, s, w, ox, oy, n, conv, k % Dx(w), k \div Dx(w)),
                   s, w, ox, oy, n, conv, k + 1)

\* the image Apply returns
ApplyResult(s, w, o, conv) ==
    LET off == PlacementOffset(Dx(s), Dy(s), Dx(w), Dy(w),
                               o.Position, o.PaddingX, o.PaddingY)
    IN ApplyLoop(CopyBase(s), s, w, off[1], off[2], NormalizeOpacity(o.Opacity), conv, 0)

-----------------------------------------------------------------------------
(* Tile *)

\* the body of Tile's inner loops for overlay pixel (wx, wy) of the tile at (tx, ty)
TilePixel(d, s, w, tx, ty, n, conv, wx, wy) ==
    LET dx == tx + wx
        dy == ty + wy
    IN IF dx >= Dx(s) \/ dy >= Dy(s) THEN d
       ELSE LET srcColor == At(d, dx, dy)
                wmColor == WmAt(w, w.min[1] + wx, w.min[2] + wy)
            IN Set(d, dx, dy, blendColors(srcColor, wmColor, n, conv))

\* the loops over wy and wx from the k-th overlay pixel on, rows outermost
RECURSIVE TileLoop(_, _, _, _, _, _, _, _)
TileLoop(d, s, w, tx, ty, n, conv, k) ==
    IF k >= Dx(w) * Dy(w) THEN d
    ELSE TileLoop(TilePixel(d, s, w, tx, ty, n, conv, k % Dx(w), k \div Dx(w)),
                  s, w, tx, ty, n, conv, k + 1)

\* the buffer after the tile at (tx, ty) is drawn
TileAt(d, s, w, tx, ty, n, conv) == TileLoop(d, s, w, tx, ty, n, conv, 0)

\* the image Tile returns when its loops end (both strides positive),
\* from the loop state (tx, ty) on
RECURSIVE TileRun(_, _, _, _, _, _, _, _, _)
TileRun(d, s, w, n, conv, sw, sh, tx, ty) ==
    IF ty >= Dy(s) THEN d
    ELSE IF tx >= Dx(s) THEN TileRun(d, s, w, n, conv, sw, sh, 0, ty + sh)
    ELSE TileRun(TileAt(d, s, w, tx, ty, n, conv), s, w, n, conv, sw, sh, tx + sw, ty)

TileResult(s, w, n, spacing, conv) ==
    TileRun(CopyBase(s), s, w, n, conv, Dx(w) + spacing, Dy(w) + spacing, 0, 0)

-----------------------------------------------------------------------------
(* State machine *)

BaseImages == {[min |-> m, w |-> bw, h |-> bh] :
                  m \in BaseOrigins, bw \in 0 .. MaxBase, bh \in 0 .. MaxBase}

OverlayImages == {[min |-> m, w |-> ow, h |-> oh, kind |-> k] :
                     m \in OverlayOrigins, ow \in 0 .. MaxOverlay,
                     oh \in 0 .. MaxOverlay, k \in OverlayKinds}

ApplyOptions == {[Position |-> p, Opacity |-> n, PaddingX |-> pad[1], PaddingY |-> pad[2]] :
                    p \in Positions, n \in ApplyOpacities, pad \in Paddings}

TileCalls == {[fn |-> "Tile", opacity |-> n, spacing |-> sp, conv |-> c] :
                 n \in TileOpacities, sp \in Spacings, c \in FloatConversions}

Init ==
    /\ src \in BaseImages
    /\ wm \in OverlayImages
    /\ call = [fn |-> "none"]
    /\ pc = "idle"
    /\ dst = [p \in {} |-> <<0, 0, 0, 0>>]
    /\ x = 0
    /\ y = 0
    /\ wmW = 0
    /\ wmH = 0

\* Apply(src, watermark, opts), as one step.  Apply's opacity is normalised
\* into (0, 1], so no conversion in it is out of range and every build
\* returns the same image.
Apply(opts) ==
    /\ pc = "idle"
    /\ call' = [fn |-> "Apply", opts |-> opts]
    /\ LET off == PlacementOffset(Dx(src), Dy(src), Dx(wm), Dy(wm),
                                  opts.Position, opts.PaddingX, opts.PaddingY)
       IN /\ x' = off[1]
          /\ y' = off[2]
    /\ \E conv \in FloatConversions : dst' = ApplyResult(src, wm, opts, conv)
    /\ pc' = "applied"
    /\ UNCHANGED <<src, wm, wmW, wmH>>

\* Tile(src, watermark, opacity, spacing) up to its loops: the copy of the
\* base and the strides.  c.conv is the build's float64-to-uint8 conversion,
\* the same for the whole call.
TileBegin(c) ==
    /\ pc = "idle"
    /\ call' = c
    /\ dst' = CopyBase(src)
    /\ wmW' = Dx(wm) + c.spacing
    /\ wmH' = Dy(wm) + c.spacing
    /\ y' = 0
    /\ x' = 0
    /\ pc' = "tile"
    /\ UNCHANGED <<src, wm>>

\* one iteration of the loop over x: the tile at (x, y), then x += wmW
TileDraw ==
    /\ pc = "tile"
    /\ y < Dy(src)
    /\ x < Dx(src)
    /\ x >= -MinOrigin /\ y >= -MinOrigin
    /\ dst' = TileAt(dst, src, wm, x, y, call.opacity, call.conv)
    /\ x' = x + wmW
    /\ UNCHANGED <<src, wm, call, pc, y, wmW, wmH>>

\* the loop over x ends: y += wmH, and the next row starts at x = 0
TileNextRow ==
    /\ pc = "tile"
    /\ y < Dy(src)
    /\ x >= Dx(src)
    /\ y >= -MinOrigin
    /\ y' = y + wmH
    /\ x' = 0
    /\ UNCHANGED <<src, wm, call, pc, dst, wmW, wmH>>

\* the loop over y ends: return dst
TileReturn ==
    /\ pc = "tile"
    /\ y >= Dy(src)
    /\ pc' = "tiled"
    /\ UNCHANGED <<src, wm, call, dst, x, y, wmW, wmH>>

Next ==
    \/ \E opts \in ApplyOptions : Apply(opts)
    \/ \E c \in TileCalls : TileBegin(c)
    \/ TileDraw
    \/ TileNextRow
    \/ TileReturn

Spec == Init /\ [][Next]_vars

-----------------------------------------------------------------------------
(* Vocabulary of the properties *)

Returned == pc \in {"applied", "tiled"}

\* the base pixel at p as the output buffer first holds it
BasePixel(p) == ToRGBA(SrcAt(src, p[1], p[2]))

\* the overlay's colour i columns and j rows from its corner
OverlayPixel(i, j) == OverlayColor(wm.kind, i, j)

OverlayCells == (0 .. Dx(wm) - 1) \X (0 .. Dy(wm) - 1)

RGB(c) == <<c[1], c[2], c[3]>>

\* Tile returns only when its loops end
TileReturnsWithPositiveStrides ==
    (pc = "tiled" /\ Dx(src) > 0 /\ Dy(src) > 0) => (wmW > 0 /\ wmH > 0)

\* the stepwise loops and the whole-call operator agree
TileStepsAgree ==
    (pc = "tiled" /\ wmW > 0 /\ wmH > 0) =>
        dst = TileResult(src, wm, call.opacity, call.spacing, call.conv)

-----------------------------------------------------------------------------
(* C1: clipping in Apply *)

\* C1: for a base with origin (0,0), every overlay pixel Apply reads lies in
\* the overlay's rectangle and every pixel it reads or writes in the output
\* lies in the base's rectangle, and Apply returns an image over the base's
\* rectangle in which the pixel at (dx, dy) is the blend of the base pixel
\* with overlay pixel (dx - x, dy - y) at the normalised opacity when
\* x <= dx < x + ow and y <= dy < y + oh, and the base pixel otherwise, for
\* every overlay size, position and padding.
C1_ApplyClipsOverlayToBase ==
    (pc = "applied" /\ src.min = <<0, 0>>) =>
        /\ DOMAIN dst = (0 .. Dx(src) - 1) \X (0 .. Dy(src) - 1)
        /\ \A c \in OverlayCells :
              /\ <<wm.min[1] + c[1], wm.min[2] + c[2]>> \in Rect(wm)
              /\ ~ApplySkips(src, x + c[1], y + c[2]) => <<x + c[1], y + c[2]>> \in DOMAIN dst
        /\ \A p \in DOMAIN dst : \A conv \in FloatConversions :
              dst[p] = IF /\ x <= p[1] /\ p[1] < x + Dx(wm)
                          /\ y <= p[2] /\ p[2] < y + Dy(wm)
                       THEN blendColors(BasePixel(p), OverlayPixel(p[1] - x, p[2] - y),
                                        NormalizeOpacity(call.opts.Opacity), conv)
                       ELSE BasePixel(p)

\* an overlay wider than the base, placed at a negative offset, of which a
\* pixel was composited
C1_Witness ==
    /\ pc = "applied"
    /\ src.min = <<0, 0>>
    /\ Dx(wm) > Dx(src)
    /\ x < 0
    /\ \E p \in DOMAIN dst : dst[p] # BasePixel(p)

-----------------------------------------------------------------------------
(* C2: placement offsets *)

Abs(v) == IF v < 0 THEN -v ELSE v

\* q is d / 2 truncated toward zero
IsHalfTowardZero(q, d) ==
    /\ 2 * Abs(q) <= Abs(d)
    /\ Abs(d) < 2 * Abs(q) + 2
    /\ q * d >= 0

\* C2: the offset Apply computes is ((bw-ow)/2, (bh-oh)/2) truncated toward
\* zero for Center, (px, py) for TopLeft, (bw-ow-px, py) for TopRight,
\* (px, bh-oh-py) for BottomLeft and (bw-ow-px, bh-oh-py) for BottomRight;
\* 200x100, 40x20 and padding (10,10) give (80,40), (10,10), (150,10),
\* (10,70), (150,70); bw = 3 and ow = 6 give x = -1 for Center.
C2_PlacementOffsets ==
    /\ pc = "applied" =>
          LET o == call.opts
              bw == Dx(src)
              bh == Dy(src)
              ow == Dx(wm)
              oh == Dy(wm)
          IN /\ o.Position = Center =>
                    IsHalfTowardZero(x, bw - ow) /\ IsHalfTowardZero(y, bh - oh)
             /\ o.Position = TopLeft => x = o.PaddingX /\ y = o.PaddingY
             /\ o.Position = TopRight => x = bw - ow - o.PaddingX /\ y = o.PaddingY
             /\ o.Position = BottomLeft => x = o.PaddingX /\ y = bh - oh - o.PaddingY
             /\ o.Position = BottomRight =>
                    x = bw - ow - o.PaddingX /\ y = bh - oh - o.PaddingY
    /\ PlacementOffset(200, 100, 40, 20, TopLeft, 10, 10) = <<10, 10>>
    /\ PlacementOffset(200, 100, 40, 20, TopRight, 10, 10) = <<150, 10>>
    /\ PlacementOffset(200, 100, 40, 20, BottomLeft, 10, 10) = <<10, 70>>
    /\ PlacementOffset(200, 100, 40, 20, BottomRight, 10, 10) = <<150, 70>>
    /\ PlacementOffset(200, 100, 40, 20, Center, 10, 10) = <<80, 40>>
    /\ PlacementOffset(3, 3, 6, 6, Center, 10, 10) = <<-1, -1>>

\* Center with bw - ow = -1: the offset is 0, not -1; non-zero padding ignored
C2_Witness ==
    /\ pc = "applied"
    /\ call.opts.Position = Center
    /\ call.opts.PaddingX # 0
    /\ Dx(src) - Dx(wm) = -1
    /\ x = 0

-----------------------------------------------------------------------------
(* C3: a fully transparent overlay *)

FullyTransparent == \A c \in OverlayCells : OverlayPixel(c[1], c[2])[4] = 0

\* C3: with an overlay all of whose pixels have alpha 0, the image Apply
\* returns and the image Tile returns are the base image pixel for pixel,
\* and blendColors gives back the base pixel it was handed, at any opacity.
C3_TransparentOverlayCopiesBase ==
    (Returned /\ FullyTransparent) =>
        /\ DOMAIN dst = Rect(src)
        /\ \A p \in DOMAIN dst : dst[p] = BasePixel(p)
        /\ \A p \in DOMAIN dst : \A c \in OverlayCells :
              \A n \in ApplyOpacities \cup TileOpacities : \A conv \in FloatConversions :
                 blendColors(dst[p], OverlayPixel(c[1], c[2]), n, conv) = dst[p]

\* Tile has returned after drawing tiles of a non-empty clear overlay at
\* opacity 1 over a non-empty base
C3_Witness ==
    /\ pc = "tiled"
    /\ wm.kind = "clear"
    /\ Dx(wm) > 0 /\ Dy(wm) > 0
    /\ Dx(src) > 1 /\ Dy(src) > 1
    /\ call.opacity = OpacityDen

-----------------------------------------------------------------------------
(* C4: opacity normalisation *)

\* C4: Apply with an opacity <= 0 returns the image Apply returns with
\* opacity 0.5, Apply with an opacity > 1 the image it returns with opacity
\* 1.0, and Tile with opacity 0 returns the base image.
C4_OpacityNormalisedOnlyByApply ==
    /\ (pc = "applied" /\ call.opts.Opacity <= 0) =>
          \A conv \in FloatConversions :
             dst = ApplyResult(src, wm, [call.opts EXCEPT !.Opacity = OpacityDen \div 2], conv)
    /\ (pc = "applied" /\ call.opts.Opacity > OpacityDen) =>
          \A conv \in FloatConversions :
             dst = ApplyResult(src, wm, [call.opts EXCEPT !.Opacity = OpacityDen], conv)
    /\ (pc = "tiled" /\ call.opacity = 0) =>
          /\ DOMAIN dst = Rect(src)
          /\ \A p \in DOMAIN dst : dst[p] = BasePixel(p)

\* Apply was called with opacity 0 and composited a pixel
C4_Witness ==
    /\ pc = "applied"
    /\ call.opts.Opacity = 0
    /\ \E p \in DOMAIN dst : dst[p] # BasePixel(p)

-----------------------------------------------------------------------------
(* C7: the alpha channel *)

\* C7: in the image Apply or Tile returns, and in the buffer while Tile
\* draws, every pixel's alpha is the 8-bit alpha of the base pixel at the
\* same coordinate.
C7_AlphaPreserved ==
    pc # "idle" =>
        /\ DOMAIN dst = Rect(src)
        /\ \A p \in DOMAIN dst : dst[p][4] = Shr8(SrcAt(src, p[1], p[2])[4])

\* Tile returned with overlapping tiles, having changed the colour of a base
\* pixel whose alpha is not the overlay's
C7_Witness ==
    /\ pc = "tiled"
    /\ call.spacing < 0
    /\ wm.kind = "opaque"
    /\ \E p \in DOMAIN dst : RGB(dst[p]) # RGB(BasePixel(p)) /\ BasePixel(p)[4] < 255

-----------------------------------------------------------------------------
(* C8: opacity 1 and maximum overlay alpha *)

\* C8: blendColors at opacity 1 with an overlay pixel of alpha 65535 returns
\* the overlay's 8-bit red, green and blue, whatever the base pixel; so
\* after Apply at normalised opacity 1 every composited pixel of an opaque
\* overlay shows the overlay's colour.
C8_OpaqueOverlayReplacesRGB ==
    /\ \A p \in DOMAIN dst : \A c \in OverlayCells : \A conv \in FloatConversions :
          LET o == OverlayPixel(c[1], c[2])
          IN o[4] = 65535 =>
                RGB(blendColors(dst[p], o, OpacityDen, conv)) = RGB(ToRGBA(o))
    /\ (/\ pc = "applied"
        /\ src.min = <<0, 0>>
        /\ NormalizeOpacity(call.opts.Opacity) = OpacityDen) =>
          \A p \in DOMAIN dst :
             (/\ x <= p[1] /\ p[1] < x + Dx(wm)
              /\ y <= p[2] /\ p[2] < y + Dy(wm)
              /\ OverlayPixel(p[1] - x, p[2] - y)[4] = 65535) =>
                RGB(dst[p]) = RGB(ToRGBA(OverlayPixel(p[1] - x, p[2] - y)))

\* Apply at opacity 1 replaced a base pixel's colour by the overlay's
C8_Witness ==
    /\ pc = "applied"
    /\ src.min = <<0, 0>>
    /\ call.opts.Opacity = OpacityDen
    /\ wm.kind = "opaque"
    /\ \E p \in DOMAIN dst :
          /\ x <= p[1] /\ p[1] < x + Dx(wm)
          /\ y <= p[2] /\ p[2] < y + Dy(wm)
          /\ RGB(dst[p]) # RGB(BasePixel(p))
          /\ RGB(dst[p]) = RGB(ToRGBA(OverlayPixel(p[1] - x, p[2] - y)))

-----------------------------------------------------------------------------
(* C5: the tile grid *)

BaseCells == (0 .. Dx(src) - 1) \X (0 .. Dy(src) - 1)

\* the output pixel i columns and j rows from the base's top-left corner
Out(i, j) == dst[<<src.min[1] + i, src.min[2] + j>>]

\* the base pixel i columns and j rows from the base's top-left corner
Base(i, j) == ToRGBA(BaseColor(i, j))

\* C5: with ow, oh >= 1 and spacing s >= 0, every origin Tile draws at is a
\* non-negative multiple of the strides, and in the image it returns the
\* base pixel (i, j), counted from the base's top-left corner, is composited
\* once, with overlay pixel (i mod (ow+s), j mod (oh+s)), when
\* i mod (ow+s) < ow and j mod (oh+s) < oh, and is the base pixel otherwise;
\* with s = 0 an opaque overlay at opacity 1 covers the whole base.
C5_TileGrid ==
    (call.fn = "Tile" /\ Dx(wm) >= 1 /\ Dy(wm) >= 1 /\ call.spacing >= 0) =>
        LET sx == Dx(wm) + call.spacing
            sy == Dy(wm) + call.spacing
        IN /\ (pc = "tile" /\ x < Dx(src) /\ y < Dy(src)) =>
                 (x >= 0 /\ y >= 0 /\ x % sx = 0 /\ y % sy = 0)
           /\ pc = "tiled" =>
                 /\ DOMAIN dst = Rect(src)
                 /\ \A c \in BaseCells :
                       Out(c[1], c[2]) =
                          IF c[1] % sx < Dx(wm) /\ c[2] % sy < Dy(wm)
                          THEN blendColors(Base(c[1], c[2]),
                                           OverlayPixel(c[1] % sx, c[2] % sy),
                                           call.opacity, call.conv)
                          ELSE Base(c[1], c[2])
                 /\ (call.spacing = 0 /\ wm.kind = "opaque" /\ call.opacity = OpacityDen) =>
                       \A c \in BaseCells :
                          RGB(Out(c[1], c[2])) =
                             RGB(ToRGBA(OverlayPixel(c[1] % sx, c[2] % sy)))

\* the tile grid of C5 for a base whose rectangle starts at (0,0)
TileGridAtOriginZero == src.min = <<0, 0>> => C5_TileGrid

\* Tile returned after drawing more than one tile, with a gap, on a base at (0,0)
TileGridAtOriginZeroWitness ==
    /\ pc = "tiled"
    /\ src.min = <<0, 0>>
    /\ call.spacing = 1
    /\ Dx(wm) = 1 /\ Dy(wm) = 1
    /\ Dx(src) = 3 /\ Dy(src) = 3
    /\ Out(2, 2) # Base(2, 2)
    /\ Out(1, 2) = Base(1, 2)

-----------------------------------------------------------------------------
(* C6: termination of Tile *)

\* C6: inside Tile's loops the tile origin (x, y) is never negative and the
\* loops always have a step to a new state, until Tile returns.
C6_TileTerminatesAtNonNegativeOrigins ==
    pc = "tile" => (x >= 0 /\ y >= 0 /\ ENABLED <<Next>>_vars)

-----------------------------------------------------------------------------
(* C9: the base image's origin *)

\* C9: the image Apply or Tile returns has the base's rectangle, and its
\* pixel (i, j) from the top-left corner is pixel (i, j) of the image returned
\* for the same base pixels placed at origin (0,0).
C9_IndependentOfBaseOrigin ==
    Returned =>
        /\ DOMAIN dst = Rect(src)
        /\ \A conv \in FloatConversions :
              LET atZero == [src EXCEPT !.min = <<0, 0>>]
                  r == IF pc = "applied"
                       THEN ApplyResult(atZero, wm, call.opts, conv)
                       ELSE TileResult(atZero, wm, call.opacity, call.spacing, call.conv)
              IN \A c \in BaseCells : Out(c[1], c[2]) = r[c]

-----------------------------------------------------------------------------
(* C10: overlapping tiles *)

\* the pixel (i, j) after the tiles of the grid from the t-th on, in
\* row-major order, have each been composited onto it where they cover it
RECURSIVE CompositeInOrder(_, _, _, _)
CompositeInOrder(c, i, j, t) ==
    LET sx == Dx(wm) + call.spacing
        sy == Dy(wm) + call.spacing
        nx == (Dx(src) + sx - 1) \div sx
        ny == (Dy(src) + sy - 1) \div sy
        tx == (t % nx) * sx
        ty == (t \div nx) * sy
        covers == tx <= i /\ i < tx + Dx(wm) /\ ty <= j /\ j < ty + Dy(wm)
    IN IF t >= nx * ny THEN c
       ELSE CompositeInOrder(
               IF covers
               THEN blendColors(c, OverlayPixel(i - tx, j - ty), call.opacity, call.conv)
               ELSE c,
               i, j, t + 1)

\* C10: with -ow < s < 0 and -oh < s < 0, in the image Tile returns every
\* pixel is the base pixel composited with each tile covering it, one after
\* the other in row-major order of the tiles, each on the result of the one
\* before; with an opaque overlay at opacity 1 its colour is that of the
\* last covering tile.
C10_OverlappingTilesInRowMajorOrder ==
    (/\ pc = "tiled"
     /\ call.spacing < 0
     /\ Dx(wm) + call.spacing > 0
     /\ Dy(wm) + call.spacing > 0) =>
        LET sx == Dx(wm) + call.spacing
            sy == Dy(wm) + call.spacing
        IN \A c \in BaseCells :
              /\ Out(c[1], c[2]) = CompositeInOrder(Base(c[1], c[2]), c[1], c[2], 0)
              /\ (wm.kind = "opaque" /\ call.opacity = OpacityDen) =>
                    RGB(Out(c[1], c[2])) =
                       RGB(ToRGBA(OverlayPixel(c[1] % sx, c[2] % sy)))

\* the overlapping tiles of C10 on a base whose rectangle starts at (0,0)
OverlappingTilesAtOriginZero == src.min = <<0, 0>> => C10_OverlappingTilesInRowMajorOrder

\* Tile returned at opacity 0.5 with a pixel composited by two tiles, which
\* is not the base pixel composited with the last tile alone
OverlappingTilesAtOriginZeroWitness ==
    /\ pc = "tiled"
    /\ src.min = <<0, 0>>
    /\ call.spacing = -1
    /\ call.opacity = OpacityDen \div 2
    /\ wm.kind = "opaque"
    /\ Dx(wm) = 2 /\ Dy(wm) = 2
    /\ Dx(src) >= 2 /\ Dy(src) >= 1
    /\ Out(1, 0) # blendColors(Base(1, 0), OverlayPixel(0, 0), call.opacity, call.conv)

=============================================================================
